---- MODULE Spec2Model ----
(***************************************************************************)
(* A model of flexeval's LLM-as-a-judge scoring engine:                    *)
(*   flexeval/core/metric/llm_score.py        (free-text scorers)          *)
(*   flexeval/core/metric/llm_geval_score.py  (constrained-label scorers)  *)
(*                                                                         *)
(* Conventions.                                                            *)
(*   - A Python str is a sequence of one-character strings.                *)
(*   - Python's None is the empty sequence <<>>; a present value v is the  *)
(*     one-element sequence <<v>>.                                         *)
(*   - A Python dict is a sequence of <<key, value>> pairs with distinct   *)
(*     keys, in insertion order (the order .items() iterates in).          *)
(*   - A function that may raise returns a record whose field "outcome"    *)
(*     is "ok" or the name of the exception.                               *)
(***************************************************************************)
EXTENDS Integers, Sequences, FiniteSets, TLC

VARIABLES
    \* ---- parse_score_from_evaluator_output, called on its own ----------
    evaluator_output,    \* the completion handed to the parser
    valid_score_range,   \* None, or <<<<lo, hi>>>> (the optional tuple)
    parsed_score,        \* the parser's return value, once called
    parse_pc,            \* "ready" | "returned" | "off"
    \* ---- calculate_weighted_average, called on its own -----------------
    evaluator_logprobs,  \* dict[str, float | None]: <<token, logprob>> pairs
    wa_result,           \* [outcome, score, probs] once called
    wa_pc,               \* "ready" | "returned" | "off"
    \* ---- a scorer object (self.*) and the model it judges with ----------
    scorer,              \* the class: "LLMScore", "ChatLLMScore", ...
    batch_size,          \* self.batch_size
    system_message,      \* self.system_message: None, <<"str", text>>, <<"template">>
    category_key,        \* self.category_key: None or <<key>>
    valid_labels,        \* self.valid_labels of the constrained-label scorers
    language_model,      \* the judge: lm_output -> completion
    \* ---- one call of evaluate(lm_outputs, references_list, task_inputs_list)
    lm_outputs,
    references_list,     \* None or <<list>>
    task_inputs_list,    \* None or <<list>>
    pc,                  \* where the scorer is: "new", "constructed", "batching",
                         \* "returned", "raised", "off"
    evaluator_input_list,
    evaluator_output_list,
    evaluator_logprobs_list,
    batch_start,         \* index of the first item batch_iter has not yielded
    result,              \* what the last call returned or raised
    history,             \* results of the earlier scorers run on these inputs
    backend_calls,       \* the arguments of the backend calls made so far
    \* ---- a summarizer, called on its own --------------------------------
    evaluator_score_list,   \* one optional score per instance
    \* ---- evaluate_reward_model(reward_model, eval_dataset, batch_size,
    \*      max_instances) -------------------------------------------------
    reward_model,           \* the judge: triple -> chosen is better (bool)
    eval_dataset,           \* the triples, in dataset order
    max_instances,          \* None or <<n>>
    reward_bench_instances, \* the triples to judge
    judge_outputs,
    chosen_is_better_list

parse_vars == <<evaluator_output, parsed_score, parse_pc>>

wa_vars == <<evaluator_logprobs, wa_result, wa_pc>>

self_vars ==
    <<scorer, batch_size, system_message, category_key, valid_labels,
      language_model>>

arg_vars == <<lm_outputs, references_list, task_inputs_list>>

run_vars ==
    <<pc, evaluator_input_list, evaluator_output_list,
      evaluator_logprobs_list, batch_start, result, history, backend_calls>>

scorer_vars == <<self_vars, arg_vars, run_vars>>

sum_vars == <<evaluator_score_list>>

reward_vars ==
    <<reward_model, eval_dataset, max_instances, reward_bench_instances,
      judge_outputs, chosen_is_better_list>>

vars ==
    <<valid_score_range, parse_vars, wa_vars, scorer_vars, sum_vars,
      reward_vars>>

(***************************************************************************)
(* Bounds of the model.                                                    *)
(***************************************************************************)
\* longest completion enumerated over Alphabet
MaxLen == 3
\* valid_score_range end points are drawn from 0..MaxScore
MaxScore == 3

(***************************************************************************)
(* Optional values.                                                        *)
(***************************************************************************)
None == <<>>

Some(v) == <<v>>

(***************************************************************************)
(* Characters and decimal digits (the regular expression class \d and the  *)
(* digits int() accepts, restricted to ASCII).                             *)
(***************************************************************************)
Digits == {"0", "1", "2", "3", "4", "5", "6", "7", "8", "9"}

IsDigit(c) == c \in Digits

DigitVal(c) ==
    CASE c = "0" -> 0 [] c = "1" -> 1 [] c = "2" -> 2 [] c = "3" -> 3
      [] c = "4" -> 4 [] c = "5" -> 5 [] c = "6" -> 6 [] c = "7" -> 7
      [] c = "8" -> 8 [] c = "9" -> 9

\* int(ds) for a non-empty string of digits: the left-to-right fold.
RECURSIVE IntOfDigitsFrom(_, _, _)
IntOfDigitsFrom(ds, i, acc) ==
    IF i > Len(ds) THEN acc
    ELSE IntOfDigitsFrom(ds, i + 1, acc * 10 + DigitVal(ds[i]))

IntOfDigits(ds) == IntOfDigitsFrom(ds, 1, 0)

(***************************************************************************)
(* re.findall(r"(\d+)", s): the maximal digit runs of s, left to right.    *)
(* cur is the run being read, acc the runs already closed.                 *)
(***************************************************************************)
RECURSIVE FindAllFrom(_, _, _, _)
FindAllFrom(s, i, cur, acc) ==
    IF i > Len(s)
    THEN IF cur # <<>> THEN Append(acc, cur) ELSE acc
    ELSE IF IsDigit(s[i])
         THEN FindAllFrom(s, i + 1, Append(cur, s[i]), acc)
         ELSE FindAllFrom(s, i + 1, <<>>,
                          IF cur # <<>> THEN Append(acc, cur) ELSE acc)

FindAllDigitRuns(s) == FindAllFrom(s, 1, <<>>, <<>>)

\* valid_score_range and not lo <= parsed_score <= hi
OutOfRange(parsed, range) ==
    /\ range # None
    /\ ~(range[1][1] <= parsed /\ parsed <= range[1][2])

\* matched[-1] of the parser
MutLastMatch(matched) == matched[1]

LastMatch(matched) == matched[Len(matched)]

\* the range test of the parser
MutParseOutOfRange(parsed, range) ==
    /\ range # None
    /\ ~(range[1][1] < parsed /\ parsed <= range[1][2])

ParseOutOfRange(parsed, range) == OutOfRange(parsed, range)

(***************************************************************************)
(* parse_score_from_evaluator_output(evaluator_output, valid_score_range)  *)
(***************************************************************************)
parse_score_from_evaluator_output(output, range) ==
    LET matched == FindAllDigitRuns(output) IN
    IF matched = <<>> THEN None
    ELSE LET parsed == IntOfDigits(LastMatch(matched)) IN
         IF ParseOutOfRange(parsed, range) THEN None ELSE Some(parsed)

(***************************************************************************)
(* Inputs of the parser: every string over Alphabet up to MaxLen, and the  *)
(* completions the documentation and the specification quote.              *)
(***************************************************************************)
Alphabet == {"1", "2", "0", "a", "["}

RECURSIVE StringsUpTo(_, _)
StringsUpTo(A, n) ==
    IF n = 0 THEN {<<>>}
    ELSE LET shorter == StringsUpTo(A, n - 1) IN
         shorter \cup {Append(s, c) : s \in shorter, c \in A}

\* "the score is [[4]] out of 5"
BracketThenScale ==
    <<"t","h","e"," ","s","c","o","r","e"," ","i","s"," ",
      "[","[","4","]","]"," ","o","u","t"," ","o","f"," ","5">>

\* "quality is average. [[2]]"
BracketLast ==
    <<"a","v","e","r","a","g","e","."," ","[","[","2","]","]">>

SampleCompletions == {BracketThenScale, BracketLast}

Ranges ==
    {None} \cup {Some(<<lo, hi>>) : lo \in 0..MaxScore, hi \in 0..MaxScore}

ParseOff ==
    /\ evaluator_output = <<>>
    /\ parsed_score = None
    /\ parse_pc = "off"

WAOff ==
    /\ evaluator_logprobs = <<>>
    /\ wa_result = <<>>
    /\ wa_pc = "off"

ScorerOff ==
    /\ scorer = "off"
    /\ batch_size = 0
    /\ system_message = <<>>
    /\ category_key = <<>>
    /\ valid_labels = <<>>
    /\ language_model = <<>>
    /\ lm_outputs = <<>>
    /\ references_list = <<>>
    /\ task_inputs_list = <<>>
    /\ pc = "off"
    /\ evaluator_input_list = <<>>
    /\ evaluator_output_list = <<>>
    /\ evaluator_logprobs_list = <<>>
    /\ batch_start = 0
    /\ result = <<>>
    /\ history = <<>>
    /\ backend_calls = <<>>

SumOff == evaluator_score_list = <<>>

RewardOff ==
    /\ reward_model = <<>>
    /\ eval_dataset = <<>>
    /\ max_instances = <<>>
    /\ reward_bench_instances = <<>>
    /\ judge_outputs = <<>>
    /\ chosen_is_better_list = <<>>

InitParse ==
    /\ WAOff
    /\ ScorerOff
    /\ SumOff
    /\ RewardOff
    /\ evaluator_output \in StringsUpTo(Alphabet, MaxLen) \cup SampleCompletions
    /\ valid_score_range \in Ranges
    /\ parsed_score = None
    /\ parse_pc = "ready"

CallParseScore ==
    /\ parse_pc = "ready"
    /\ parsed_score' =
           parse_score_from_evaluator_output(evaluator_output, valid_score_range)
    /\ parse_pc' = "returned"
    /\ UNCHANGED <<evaluator_output, valid_score_range, wa_vars, scorer_vars,
                   sum_vars, reward_vars>>

NextParse == CallParseScore

SpecParse == InitParse /\ [][NextParse]_vars

(***************************************************************************)
(* Claims about parse_score_from_evaluator_output (checked under           *)
(* SpecParse).  The reference value is stated from positions of the        *)
(* string, independently of the scan above.                                *)
(***************************************************************************)
HasDigit(s) == \E i \in 1..Len(s) : IsDigit(s[i])

\* the number written by s[i..j], least significant digit first
RECURSIVE DecimalValue(_, _, _)
DecimalValue(s, i, j) ==
    IF i > j THEN 0 ELSE DigitVal(s[j]) + 10 * DecimalValue(s, i, j - 1)

\* s[i..j] is a maximal run of digits and no digit follows it
IsLastMaximalRun(s, i, j) ==
    /\ i <= j
    /\ \A k \in i..j : IsDigit(s[k])
    /\ (i = 1 \/ ~IsDigit(s[i - 1]))
    /\ \A k \in (j + 1)..Len(s) : ~IsDigit(s[k])

LastRunValues(s) ==
    {DecimalValue(s, i, j) : <<i, j>> \in
        {ij \in (1..Len(s)) \X (1..Len(s)) : IsLastMaximalRun(s, ij[1], ij[2])}}

\* C3: with no range configured, the parser returns the integer value of
\* the last maximal run of decimal digits of every completion that holds a
\* digit, and None for a completion that holds none.
C3_LastDigitRun ==
    (parse_pc = "returned" /\ valid_score_range = None) =>
        IF HasDigit(evaluator_output)
        THEN \E v \in LastRunValues(evaluator_output) : parsed_score = Some(v)
        ELSE parsed_score = None

\* "1a2" has two digit runs; the parser returned the last one.
C3_Witness ==
    /\ parse_pc = "returned"
    /\ valid_score_range = None
    /\ evaluator_output = <<"1", "a", "2">>
    /\ parsed_score = Some(2)

\* C4 (as claimed): "the score is [[4]] out of 5" parses to 4, the
\* bracketed value, not 5.
C4_BracketedBeforeScale ==
    (parse_pc = "returned" /\ valid_score_range = None
        /\ evaluator_output = BracketThenScale) => parsed_score = Some(4)

\* C4 (amended): "the score is [[4]] out of 5" parses to 5, its last digit
\* run (None when a configured range excludes 5); a bracketed score is the
\* result only when no digit follows it, as in "average. [[2]]".
C4_LastRunWins ==
    parse_pc = "returned" =>
        /\ evaluator_output = BracketThenScale =>
              parsed_score =
                  IF valid_score_range = None
                      \/ (valid_score_range # None
                            /\ valid_score_range[1][1] <= 5
                            /\ 5 <= valid_score_range[1][2])
                  THEN Some(5) ELSE None
        /\ (evaluator_output = BracketLast /\ valid_score_range = None) =>
              parsed_score = Some(2)

C4_Witness ==
    /\ parse_pc = "returned"
    /\ valid_score_range = None
    /\ evaluator_output = BracketThenScale
    /\ parsed_score = Some(5)

\* C5: with a range [lo, hi], lo <= hi, configured, a parsed integer below
\* lo or above hi makes the score None (not lo, not hi), and a parsed
\* integer within lo..hi, both ends included, is returned unchanged.
C5_RangeFilter ==
    (parse_pc = "returned" /\ valid_score_range # None
        /\ HasDigit(evaluator_output)) =>
        LET lo == valid_score_range[1][1]
            hi == valid_score_range[1][2]
        IN  lo <= hi =>
              \A v \in LastRunValues(evaluator_output) :
                  /\ (v < lo \/ v > hi) => parsed_score = None
                  /\ (lo <= v /\ v <= hi) => parsed_score = Some(v)

\* "12" against the range (1, 2): absent, not clamped to 2.
C5_Witness ==
    /\ parse_pc = "returned"
    /\ valid_score_range = Some(<<1, 2>>)
    /\ evaluator_output = <<"1", "2">>
    /\ parsed_score = None

(***************************************************************************)
(* Rationals, for probabilities and means: <<n, d>> with d > 0, kept in    *)
(* lowest terms so that equal numbers are equal values.                    *)
(***************************************************************************)
Abs(x) == IF x < 0 THEN -x ELSE x

RECURSIVE GCD(_, _)
GCD(a, b) == IF b = 0 THEN a ELSE GCD(b, a % b)

Frac(n, d) ==
    LET g == GCD(Abs(n), d) IN <<n \div g, d \div g>>

FracOfInt(n) == <<n, 1>>

FracAdd(a, b) == Frac(a[1] * b[2] + b[1] * a[2], a[2] * b[2])

FracScale(k, a) == Frac(k * a[1], a[2])

\* a / b for b > 0
FracDiv(a, b) == Frac(a[1] * b[2], a[2] * b[1])

FracLeq(a, b) == a[1] * b[2] <= b[1] * a[2]

RECURSIVE Pow2(_)
Pow2(k) == IF k = 0 THEN 1 ELSE 2 * Pow2(k - 1)

(***************************************************************************)
(* Floating-point arithmetic.  A Python float keeps a fixed number of      *)
(* significant bits and every operation returns the representable value    *)
(* nearest to the exact result, ties to the even significand.  The model   *)
(* keeps that rule with MantissaBits significant bits, so that the         *)
(* products stay within 32-bit integers; float values are the       *)
(* rationals they stand for.  A double keeps 53 bits; 1/5 has a binary     *)
(* expansion of period 4, so with 9 bits (9 = 53 modulo 4) it is rounded   *)
(* in the same direction as in a double.  The rounding is modelled in      *)
(* math.exp and in numpy.average; the means of the summarizers divide      *)
(* sums by counts and are kept as exact quotients.                         *)
(***************************************************************************)
\* significant bits of a float in the model
MantissaBits == 9

\* the integer nearest to n / d, ties to even (n >= 0, d > 0)
NearestEven(n, d) ==
    LET q == n \div d
        r == n % d
    IN  IF 2 * r > d \/ (2 * r = d /\ q % 2 = 1) THEN q + 1 ELSE q

\* n / d > 0 rounded to MantissaBits significant bits
RECURSIVE RoundPos(_, _)
RoundPos(n, d) ==
    IF n >= d * Pow2(MantissaBits) THEN FracScale(2, RoundPos(n, 2 * d))
    ELSE IF n < d * Pow2(MantissaBits - 1)
    THEN LET half == RoundPos(2 * n, d) IN Frac(half[1], 2 * half[2])
    ELSE FracOfInt(NearestEven(n, d))

Round(x) ==
    IF x[1] = 0 THEN x
    ELSE IF x[1] < 0
    THEN LET r == RoundPos(-x[1], x[2]) IN <<-r[1], r[2]>>
    ELSE RoundPos(x[1], x[2])

\* float + float, int * float, float / float
FAdd(a, b) == Round(FracAdd(a, b))

FMul(k, a) == Round(FracScale(k, a))

FDiv(a, b) == Round(FracDiv(a, b))

RECURSIVE Pow5(_)
Pow5(k) == IF k = 0 THEN 1 ELSE 5 * Pow5(k - 1)

(***************************************************************************)
(* A log-probability is written <<a, b>> for the float nearest to          *)
(* a * ln 2 + b * ln 5 (a, b <= 0), and math.exp gives the float nearest   *)
(* to 2^a * 5^b: <<0, 0>> is log 1, <<-1, 0>> log 0.5, <<0, -1>> log 0.2.  *)
(* Below 2^-1074, the smallest positive double, math.exp returns 0.0; the  *)
(* sample that underflows is a power of two.                               *)
(***************************************************************************)
Exp(lp) ==
    IF lp[1] < -1074 THEN <<0, 1>>
    ELSE Round(Frac(1, Pow2(-lp[1]) * Pow5(-lp[2])))

(***************************************************************************)
(* Python dicts as sequences of <<key, value>> pairs.                      *)
(***************************************************************************)
DictKeys(d) == {d[i][1] : i \in 1..Len(d)}

DictGet(d, k) == d[CHOOSE i \in 1..Len(d) : d[i][1] = k][2]

\* d[k] = v: an existing key keeps its place, a new key goes last
DictSet(d, k, v) ==
    IF k \in DictKeys(d)
    THEN [i \in 1..Len(d) |-> IF d[i][1] = k THEN <<k, v>> ELSE d[i]]
    ELSE Append(d, <<k, v>>)

(***************************************************************************)
(* re.match(r"(\d)+", token): the token begins with a digit.               *)
(***************************************************************************)
MatchLeadingDigits(token) == Len(token) >= 1 /\ IsDigit(token[1])

(***************************************************************************)
(* int(token), for a token that begins with a digit: int() strips          *)
(* surrounding whitespace and then accepts digits only (ValueError         *)
(* otherwise).                                                             *)
(***************************************************************************)
RECURSIVE StripRight(_)
StripRight(token) ==
    IF token # <<>> /\ token[Len(token)] = " "
    THEN StripRight(SubSeq(token, 1, Len(token) - 1))
    ELSE token

IntParses(token) ==
    LET body == StripRight(token) IN
    body # <<>> /\ \A i \in 1..Len(body) : IsDigit(body[i])

IntOfToken(token) == IntOfDigits(StripRight(token))

\* the range test of calculate_weighted_average
MutWAOutOfRange(parsed, range) == FALSE

WAOutOfRange(parsed, range) == OutOfRange(parsed, range)

(***************************************************************************)
(* The loop of calculate_weighted_average over evaluator_logprobs.items(). *)
(* Returns [outcome, probs]: score_prob_dict after the loop, or the        *)
(* exception int(token) raised.                                            *)
(***************************************************************************)
RECURSIVE ScoreProbLoop(_, _, _, _)
ScoreProbLoop(items, i, range, score_prob_dict) ==
    IF i > Len(items) THEN [outcome |-> "ok", probs |-> score_prob_dict]
    ELSE LET token == items[i][1]
             logprob == items[i][2]
         IN
         IF logprob = None
         THEN ScoreProbLoop(items, i + 1, range, score_prob_dict)
         ELSE IF ~MatchLeadingDigits(token)
         THEN ScoreProbLoop(items, i + 1, range, score_prob_dict)
         ELSE IF ~IntParses(token)
         THEN [outcome |-> "ValueError", probs |-> score_prob_dict]
         ELSE IF WAOutOfRange(IntOfToken(token), range)
         THEN ScoreProbLoop(items, i + 1, range, score_prob_dict)
         ELSE ScoreProbLoop(items, i + 1, range,
                  DictSet(score_prob_dict, IntOfToken(token), Exp(logprob[1])))

\* wgt.sum(): the weights added up from the first to the last
RECURSIVE SumWeights(_, _, _)
SumWeights(d, i, acc) ==
    IF i > Len(d) THEN acc
    ELSE SumWeights(d, i + 1, FAdd(acc, d[i][2]))

\* np.multiply(a, wgt).sum(): the products added up from the first to the
\* last
RECURSIVE SumWeighted(_, _, _)
SumWeighted(d, i, acc) ==
    IF i > Len(d) THEN acc
    ELSE SumWeighted(d, i + 1, FAdd(acc, FMul(d[i][1], d[i][2])))

(***************************************************************************)
(* numpy.average(keys, weights=values): the weights' sum divides the       *)
(* weighted sum; a zero sum raises ZeroDivisionError ("Weights sum to      *)
(* zero, can't be normalized").                                            *)
(***************************************************************************)
Average(d) ==
    LET scl == SumWeights(d, 1, FracOfInt(0)) IN
    IF scl[1] = 0
    THEN [outcome |-> "ZeroDivisionError", value |-> None]
    ELSE [outcome |-> "ok",
          value |-> Some(FDiv(SumWeighted(d, 1, FracOfInt(0)), scl))]

(***************************************************************************)
(* calculate_weighted_average(evaluator_logprobs, valid_score_range)       *)
(***************************************************************************)
calculate_weighted_average(logprobs, range) ==
    LET loop == ScoreProbLoop(logprobs, 1, range, <<>>) IN
    IF loop.outcome # "ok"
    THEN [outcome |-> loop.outcome, score |-> None, probs |-> <<>>]
    ELSE IF Len(loop.probs) = 0
    THEN [outcome |-> "ok", score |-> None, probs |-> loop.probs]
    ELSE LET avg == Average(loop.probs) IN
         IF avg.outcome # "ok"
         THEN [outcome |-> avg.outcome, score |-> None, probs |-> <<>>]
         ELSE [outcome |-> "ok", score |-> avg.value, probs |-> loop.probs]

(***************************************************************************)
(* Inputs of calculate_weighted_average: dicts of up to MaxLabels entries  *)
(* over sample tokens and sample log-probabilities.                        *)
(***************************************************************************)
\* most entries of an evaluator_logprobs dict
MaxLabels == 2

\* "1", "2", "2 ", "1a", "a", "-1", ""
SampleTokens ==
    {<<"1">>, <<"2">>, <<"2", " ">>, <<"1", "a">>, <<"a">>, <<"-", "1">>, <<>>}

\* None, log 1, log 0.5, and a log-probability whose exp underflows
SampleLogprobs == {None, Some(<<0, 0>>), Some(<<-1, 0>>), Some(<<-1075, 0>>)}

RECURSIVE DictsUpTo(_)
DictsUpTo(n) ==
    IF n = 0 THEN {<<>>}
    ELSE LET shorter == DictsUpTo(n - 1) IN
         shorter \cup
         {Append(d, <<t, lp>>) :
             d \in {e \in shorter : Len(e) = n - 1},
             t \in SampleTokens, lp \in SampleLogprobs}

LogprobDicts ==
    {d \in DictsUpTo(MaxLabels) :
        \A i, j \in 1..Len(d) : d[i][1] = d[j][1] => i = j}

InitWA ==
    /\ ParseOff
    /\ ScorerOff
    /\ SumOff
    /\ RewardOff
    /\ evaluator_logprobs \in LogprobDicts
    /\ valid_score_range \in Ranges
    /\ wa_result = <<>>
    /\ wa_pc = "ready"

CallCalculateWeightedAverage ==
    /\ wa_pc = "ready"
    /\ wa_result' =
           calculate_weighted_average(evaluator_logprobs, valid_score_range)
    /\ wa_pc' = "returned"
    /\ UNCHANGED <<evaluator_logprobs, valid_score_range, parse_vars, scorer_vars,
                   sum_vars, reward_vars>>

NextWA == CallCalculateWeightedAverage

SpecWA == InitWA /\ [][NextWA]_vars

(***************************************************************************)
(* Claims about calculate_weighted_average (checked under SpecWA).  The    *)
(* reference reads a label as its leading run of digits and sums over the  *)
(* positions of the input dict.                                            *)
(***************************************************************************)
RECURSIVE LeadingDigits(_)
LeadingDigits(token) ==
    IF token = <<>> \/ ~IsDigit(Head(token)) THEN <<>>
    ELSE <<Head(token)>> \o LeadingDigits(Tail(token))

BeginsWithDigit(token) == LeadingDigits(token) # <<>>

LabelValue(token) ==
    DecimalValue(LeadingDigits(token), 1, Len(LeadingDigits(token)))

InsideRange(v, range) ==
    range = None \/ (range[1][1] <= v /\ v <= range[1][2])

\* positions of the labels that survive: a non-null log-probability and a
\* parsed integer inside the configured range
Survivors(d, range) ==
    {i \in 1..Len(d) :
        /\ d[i][2] # None
        /\ BeginsWithDigit(d[i][1])
        /\ InsideRange(LabelValue(d[i][1]), range)}

\* the float sum over the positions S of the dict, first to last
RECURSIVE SumOver(_, _, _)
SumOver(S, d, weighted) ==
    IF S = {} THEN FracOfInt(0)
    ELSE LET i == CHOOSE x \in S : \A y \in S : y <= x
             p == Exp(d[i][2][1])
         IN  FAdd(SumOver(S \ {i}, d, weighted),
                  IF weighted THEN FMul(LabelValue(d[i][1]), p) ELSE p)

\* C6 (as claimed): for every dict with a non-empty survivor set the
\* function returns (sum over surviving labels of label * exp(logprob)) /
\* (sum over surviving labels of exp(logprob)).
C6_WeightedMean ==
    LET S == Survivors(evaluator_logprobs, valid_score_range) IN
    (wa_pc = "returned" /\ S # {}) =>
        /\ wa_result.outcome = "ok"
        /\ wa_result.score =
               Some(FDiv(SumOver(S, evaluator_logprobs, TRUE),
                         SumOver(S, evaluator_logprobs, FALSE)))

\* the float sum over the first n entries of the map whose key is in K
RECURSIVE KeySum(_, _, _, _)
KeySum(K, probs, n, weighted) ==
    IF n = 0 THEN FracOfInt(0)
    ELSE LET k == probs[n][1]
             p == probs[n][2]
             before == KeySum(K, probs, n - 1, weighted)
         IN  IF k \notin K THEN before
             ELSE FAdd(before, IF weighted THEN FMul(k, p) ELSE p)

\* C7: when calculate_weighted_average returns, the keys of the returned
\* probability map are exactly the parsed integers of the labels with a
\* non-null log-probability and a value inside the configured range (all
\* parsed labels without a range); each probability is exp of such a
\* label's log-probability; and the score is the mean of those keys
\* weighted by those probabilities, None when there is no such label.  A
\* null-logprob or out-of-range label adds nothing to any of them.
C7_SurvivorSet ==
    (wa_pc = "returned" /\ wa_result.outcome = "ok") =>
        LET d == evaluator_logprobs
            S == Survivors(d, valid_score_range)
            K == {LabelValue(d[i][1]) : i \in S}
            probs == wa_result.probs
        IN  /\ DictKeys(probs) = K
            /\ \A k \in K : \E i \in S :
                   /\ LabelValue(d[i][1]) = k
                   /\ DictGet(probs, k) = Exp(d[i][2][1])
            /\ wa_result.score =
                   IF K = {} THEN None
                   ELSE Some(FDiv(KeySum(K, probs, Len(probs), TRUE),
                                  KeySum(K, probs, Len(probs), FALSE)))

\* a dict with one label dropped for its range or its null log-probability
\* and one that survives, scored
C7_Witness ==
    /\ wa_pc = "returned"
    /\ wa_result.outcome = "ok"
    /\ wa_result.score # None
    /\ valid_score_range # None
    /\ \E i \in 1..Len(evaluator_logprobs) :
           /\ i \notin Survivors(evaluator_logprobs, valid_score_range)
           /\ BeginsWithDigit(evaluator_logprobs[i][1])
           /\ evaluator_logprobs[i][2] # None
    /\ Survivors(evaluator_logprobs, valid_score_range) # {}

\* C8 (as claimed): when no label survives (null log-probability, no
\* parse, or outside the range) the function returns the score None: it
\* does not raise and does not return zero.
C8_NoSurvivorIsAbsent ==
    (wa_pc = "returned"
        /\ Survivors(evaluator_logprobs, valid_score_range) = {}) =>
        /\ wa_result.outcome = "ok"
        /\ wa_result.score = None

\* C9 (as claimed): for every label string the call completes: a label
\* that is no leading digit sequence is dropped, and a label that begins
\* with digits is parsed; no label raises.
C9_NoLabelRaises ==
    wa_pc = "returned" => wa_result.outcome # "ValueError"

(***************************************************************************)
(* Prompt assembly.  PromptTemplate.embed_inputs is an opaque capability:  *)
(* the rendered text is tagged with the template and the context it was    *)
(* rendered from.                                                          *)
(***************************************************************************)
EmbedInputs(template, prompt_inputs) == <<"rendered", template, prompt_inputs>>

\* d.update(items): {**d, **items}
RECURSIVE DictUpdate(_, _)
DictUpdate(d, items) ==
    IF items = <<>> THEN d
    ELSE DictUpdate(DictSet(d, Head(items)[1], Head(items)[2]), Tail(items))

\* the built-in fields written over the task-input fields
MutPromptInputs(lm_output, references, task_input) ==
    DictUpdate(task_input,
               <<<<"lm_output", lm_output>>, <<"references", references>>>>)

\* {"lm_output": lm_output, "references": references, **task_input}
PromptInputs(lm_output, references, task_input) ==
    DictUpdate(<<<<"lm_output", lm_output>>, <<"references", references>>>>,
               task_input)

\* every message but None taken as true
MutTruthy(message) == message # None

\* truth value of self.system_message: None and "" are false
Truthy(message) == message # None /\ message # <<"str", "">>

\* the flat prompt of LLMScore
TextInput(lm_output, references, task_input) ==
    EmbedInputs("prompt_template",
                PromptInputs(lm_output, references, task_input))

\* the chat messages of ChatLLMScore
ChatInput(lm_output, references, task_input, message) ==
    LET prompt_inputs == PromptInputs(lm_output, references, task_input)
        user == [role |-> "user",
                 content |-> EmbedInputs("prompt_template", prompt_inputs)]
    IN  IF Truthy(message)
        THEN <<[role |-> "system",
                content |-> IF message[1] = "str" THEN message
                            ELSE EmbedInputs("system_message", prompt_inputs)],
               user>>
        ELSE <<user>>

Min(a, b) == IF a <= b THEN a ELSE b

IsChat(cls) == cls \in {"ChatLLMScore", "ChatLLMGEvalScore"}

\* references_list / task_inputs_list after the "is None" defaults
ReferencesOrDefault ==
    IF references_list = None
    THEN [i \in 1..Len(lm_outputs) |-> <<>>] ELSE references_list[1]

TaskInputsOrDefault ==
    IF task_inputs_list = None
    THEN [i \in 1..Len(lm_outputs) |-> <<>>] ELSE task_inputs_list[1]

\* the loop over zip(lm_outputs, task_inputs_list, references_list)
RenderInputs(cls, outputs, task_inputs, references, message) ==
    [i \in 1..Min(Len(outputs), Min(Len(task_inputs), Len(references))) |->
        IF IsChat(cls)
        THEN ChatInput(outputs[i], references[i], task_inputs[i], message)
        ELSE TextInput(outputs[i], references[i], task_inputs[i])]

(***************************************************************************)
(* The judge model: a backend whose completion depends only on the prompt  *)
(* (here on the lm_output the prompt was rendered from) and that answers   *)
(* one completion per prompt, in order.                                    *)
(***************************************************************************)
TextKey(evaluator_input) == DictGet(evaluator_input[3], "lm_output")

ChatKey(messages) == TextKey(messages[Len(messages)].content)

PromptKey(cls, evaluator_input) ==
    IF IsChat(cls) THEN ChatKey(evaluator_input) ELSE TextKey(evaluator_input)

\* language_model.batch_complete_text / batch_generate_chat_response
BatchComplete(cls, model, batch) ==
    [i \in 1..Len(batch) |-> model[PromptKey(cls, batch[i])]]

\* slices of one item, whatever the batch size
MutBatchAt(items, start, size) == SubSeq(items, start, start)

\* batch_iter(items, batch_size): the slice that starts at index start
BatchAt(items, start, size) ==
    SubSeq(items, start, Min(start + size - 1, Len(items)))

\* evaluator_output_list += evaluator_outputs
MutExtendOutputs(output_list, outputs) == outputs

ExtendOutputs(output_list, outputs) == output_list \o outputs

(***************************************************************************)
(* summarize_evaluator_scores_with_category                                *)
(***************************************************************************)
RECURSIVE SumInts(_)
SumInts(xs) == IF xs = <<>> THEN 0 ELSE Head(xs) + SumInts(Tail(xs))

\* category2valid_scores[k].append(score) on a defaultdict(list)
DictAppendTo(d, k, v) ==
    IF k \in DictKeys(d) THEN DictSet(d, k, Append(DictGet(d, k), v))
    ELSE Append(d, <<k, <<v>>>>)

\* the loop over zip(evaluator_score_list, task_inputs_list)
RECURSIVE SummarizeLoop(_, _, _, _, _, _)
SummarizeLoop(scores, task_inputs, key, i, all_scores, by_category) ==
    IF i > Min(Len(scores), Len(task_inputs))
    THEN [outcome |-> "ok", all_scores |-> all_scores,
          by_category |-> by_category]
    ELSE IF scores[i] = None
    THEN SummarizeLoop(scores, task_inputs, key, i + 1, all_scores, by_category)
    ELSE IF key # None /\ key[1] \in DictKeys(task_inputs[i])
    THEN IF "category" \notin DictKeys(task_inputs[i])
         THEN [outcome |-> "KeyError", all_scores |-> all_scores,
               by_category |-> by_category]
         ELSE SummarizeLoop(scores, task_inputs, key, i + 1,
                  Append(all_scores, scores[i][1]),
                  DictAppendTo(by_category,
                               DictGet(task_inputs[i], "category"),
                               scores[i][1]))
    ELSE SummarizeLoop(scores, task_inputs, key, i + 1,
             Append(all_scores, scores[i][1]), by_category)

summarize_evaluator_scores_with_category(scores, task_inputs, key) ==
    LET loop == SummarizeLoop(scores, task_inputs, key, 1, <<>>, <<>>) IN
    IF loop.outcome # "ok" THEN [outcome |-> loop.outcome, summary |-> <<>>]
    ELSE IF Len(loop.all_scores) = 0
    THEN [outcome |-> "ZeroDivisionError", summary |-> <<>>]
    ELSE [outcome |-> "ok",
          summary |->
              <<<< <<"llm_score">>,
                   Frac(SumInts(loop.all_scores), Len(loop.all_scores)) >>,
                << <<"num_failed_score_parses">>,
                   Len(scores) - Len(loop.all_scores) >>>>
              \o [c \in 1..Len(loop.by_category) |->
                    << <<"llm_score", loop.by_category[c][1]>>,
                       Frac(SumInts(loop.by_category[c][2]),
                            Len(loop.by_category[c][2])) >>]]

(***************************************************************************)
(* str(score) and range(a, b), for self.valid_labels.                      *)
(***************************************************************************)
DigitChar(d) ==
    CASE d = 0 -> "0" [] d = 1 -> "1" [] d = 2 -> "2" [] d = 3 -> "3"
      [] d = 4 -> "4" [] d = 5 -> "5" [] d = 6 -> "6" [] d = 7 -> "7"
      [] d = 8 -> "8" [] d = 9 -> "9"

RECURSIVE NatToStr(_)
NatToStr(n) ==
    IF n < 10 THEN <<DigitChar(n)>>
    ELSE Append(NatToStr(n \div 10), DigitChar(n % 10))

IntToStr(n) == IF n < 0 THEN <<"-">> \o NatToStr(-n) ELSE NatToStr(n)

PyRange(a, b) == [i \in 1..(IF b > a THEN b - a ELSE 0) |-> a + i - 1]

\* [str(score) for score in range(lo, hi + 2)]       (LLMGEvalScore)
\* [str(score) for score in range(lo, hi + 1)]       (ChatLLMGEvalScore)
ValidLabels(cls, range) ==
    LET scores == IF cls = "LLMGEvalScore"
                  THEN PyRange(range[1][1], range[1][2] + 2)
                  ELSE PyRange(range[1][1], range[1][2] + 1)
    IN  [i \in 1..Len(scores) |-> IntToStr(scores[i])]

Raised(exception) ==
    [outcome |-> exception, summary |-> <<>>, instance_details |-> <<>>]

(***************************************************************************)
(* __init__ of the four scorers.  The arguments are the values the         *)
(* variables hold; the free-text scorers store them as they are.           *)
(* ChatLLMGEvalScore.__init__ reads prob_threshold, a name that is neither *)
(* a parameter nor a global: NameError, before valid_labels is set.        *)
(***************************************************************************)
Construct ==
    /\ pc = "new"
    /\ IF scorer = "ChatLLMGEvalScore"
       THEN /\ pc' = "raised"
            /\ result' = Raised("NameError")
            /\ UNCHANGED valid_labels
       ELSE /\ pc' = "constructed"
            /\ valid_labels' =
                   IF scorer = "LLMGEvalScore"
                   THEN ValidLabels(scorer, valid_score_range)
                   ELSE <<>>
            /\ UNCHANGED result
    /\ UNCHANGED <<valid_score_range, parse_vars, wa_vars, sum_vars, reward_vars,
                   arg_vars,
                   scorer, batch_size, system_message, category_key,
                   language_model, evaluator_input_list,
                   evaluator_output_list, evaluator_logprobs_list,
                   batch_start, history, backend_calls>>

(***************************************************************************)
(* LLMScore.evaluate and ChatLLMScore.evaluate, cut at the backend calls.  *)
(***************************************************************************)
FreeTextScorers == {"LLMScore", "ChatLLMScore"}

\* the defaults and the rendering loop, up to the first batch
StartEvaluate ==
    /\ pc = "constructed"
    /\ scorer \in FreeTextScorers
    /\ evaluator_input_list' =
           RenderInputs(scorer, lm_outputs, TaskInputsOrDefault,
                        ReferencesOrDefault, system_message)
    /\ evaluator_output_list' = <<>>
    /\ batch_start' = 1
    /\ pc' = "batching"
    /\ UNCHANGED <<valid_score_range, parse_vars, wa_vars, sum_vars, reward_vars,
                   self_vars,
                   arg_vars, evaluator_logprobs_list, result, history,
                   backend_calls>>

\* one turn of the loop over batch_iter(evaluator_input_list, batch_size)
BackendCall ==
    /\ pc = "batching"
    /\ scorer \in FreeTextScorers
    /\ batch_start <= Len(evaluator_input_list)
    /\ LET batch == BatchAt(evaluator_input_list, batch_start, batch_size)
           evaluator_outputs == BatchComplete(scorer, language_model, batch)
       IN  /\ evaluator_output_list' =
                  ExtendOutputs(evaluator_output_list, evaluator_outputs)
           /\ batch_start' = batch_start + Len(batch)
           /\ backend_calls' = Append(backend_calls, batch)
    /\ UNCHANGED <<valid_score_range, parse_vars, wa_vars, sum_vars, reward_vars,
                   self_vars,
                   arg_vars, pc, evaluator_input_list,
                   evaluator_logprobs_list, result, history>>

\* the parsing loop over evaluator_output_list
ParseScores(outputs, range) ==
    [i \in 1..Len(outputs) |->
        parse_score_from_evaluator_output(outputs[i], range)]

\* zip(evaluator_score_list, evaluator_input_list, evaluator_output_list)
InstanceDetails(scores, inputs, outputs) ==
    [i \in 1..Min(Len(scores), Min(Len(inputs), Len(outputs))) |->
        [llm_score |-> scores[i],
         llm_score_input |-> inputs[i],
         llm_score_output |-> outputs[i]]]

\* after the last batch: parse, summarize, return MetricResult
FinishEvaluate ==
    /\ pc = "batching"
    /\ scorer \in FreeTextScorers
    /\ batch_start > Len(evaluator_input_list)
    /\ LET score_list ==
               ParseScores(evaluator_output_list, valid_score_range)
           summarized ==
               summarize_evaluator_scores_with_category(
                   score_list, TaskInputsOrDefault, category_key)
       IN  IF summarized.outcome = "ok"
           THEN /\ pc' = "returned"
                /\ result' =
                       [outcome |-> "ok",
                        summary |-> summarized.summary,
                        instance_details |->
                            InstanceDetails(score_list,
                                            evaluator_input_list,
                                            evaluator_output_list)]
           ELSE /\ pc' = "raised"
                /\ result' = Raised(summarized.outcome)
    /\ UNCHANGED <<valid_score_range, parse_vars, wa_vars, sum_vars, reward_vars,
                   self_vars,
                   arg_vars, evaluator_input_list, evaluator_output_list,
                   evaluator_logprobs_list, batch_start, history,
                   backend_calls>>

(***************************************************************************)
(* A second scorer of the same class, judge and configuration but with     *)
(* batch_size = 1, run on the same inputs; the earlier result is kept.     *)
(***************************************************************************)
Rerun ==
    /\ pc \in {"returned", "raised"}
    /\ scorer \in FreeTextScorers
    /\ history = <<>>
    /\ history' = Append(history, [batch_size |-> batch_size, result |-> result])
    /\ batch_size' = 1
    /\ pc' = "new"
    /\ result' = <<>>
    /\ evaluator_input_list' = <<>>
    /\ evaluator_output_list' = <<>>
    /\ batch_start' = 0
    /\ backend_calls' = <<>>
    /\ UNCHANGED <<valid_score_range, parse_vars, wa_vars, sum_vars, reward_vars,
                   arg_vars, scorer,
                   evaluator_logprobs_list,
                   system_message, category_key, valid_labels, language_model>>

(***************************************************************************)
(* Inputs of the free-text scorers.                                        *)
(***************************************************************************)
\* most instances passed to evaluate
MaxN == 3
\* largest batch_size
MaxBatch == 3

LmOutputValues == {"x", "y"}

\* "2", "a" (no digit), "1a3" (two digit runs)
JudgeOutputs == {<<"2">>, <<"a">>, <<"1", "a", "3">>}

SampleInstances ==
    {[lm_output |-> "x", references |-> <<>>, task_input |-> <<>>],
     [lm_output |-> "y", references |-> <<"r">>,
      task_input |-> <<<<"category", "A">>>>]}

RECURSIVE InstanceLists(_)
InstanceLists(n) ==
    IF n = 0 THEN {<<>>}
    ELSE LET shorter == InstanceLists(n - 1) IN
         shorter \cup {Append(l, x) : l \in shorter, x \in SampleInstances}

\* evaluate's arguments for a list of instances: the optional lists are
\* passed as None when they would hold nothing
ArgsOf(instances) ==
    /\ lm_outputs = [i \in 1..Len(instances) |-> instances[i].lm_output]
    /\ references_list =
           IF \A i \in 1..Len(instances) : instances[i].references = <<>>
           THEN None
           ELSE Some([i \in 1..Len(instances) |-> instances[i].references])
    /\ task_inputs_list =
           IF \A i \in 1..Len(instances) : instances[i].task_input = <<>>
           THEN None
           ELSE Some([i \in 1..Len(instances) |-> instances[i].task_input])

RunFresh ==
    /\ pc = "new"
    /\ evaluator_input_list = <<>>
    /\ evaluator_output_list = <<>>
    /\ evaluator_logprobs_list = <<>>
    /\ batch_start = 0
    /\ result = <<>>
    /\ history = <<>>
    /\ backend_calls = <<>>

Init ==
    /\ ParseOff
    /\ WAOff
    /\ SumOff
    /\ RewardOff
    /\ scorer \in FreeTextScorers
    /\ batch_size \in 1..MaxBatch
    /\ system_message \in
           IF IsChat(scorer) THEN {None, <<"str", "sys">>} ELSE {None}
    /\ category_key \in {None, Some("category")}
    /\ valid_score_range \in {None, Some(<<1, 2>>)}
    /\ valid_labels = <<>>
    /\ language_model \in [LmOutputValues -> JudgeOutputs]
    /\ \E instances \in InstanceLists(MaxN) : ArgsOf(instances)
    /\ RunFresh

Next ==
    \/ Construct
    \/ StartEvaluate
    \/ BackendCall
    \/ FinishEvaluate
    \/ Rerun

Spec == Init /\ [][Next]_vars

(***************************************************************************)
(* Claims about LLMScore.evaluate and ChatLLMScore.evaluate (checked       *)
(* under Spec).                                                            *)
(***************************************************************************)
Ended == pc \in {"returned", "raised"} /\ scorer \in FreeTextScorers

\* the prompt of instance i, assembled from the arguments of evaluate
PromptOf(i) ==
    IF IsChat(scorer)
    THEN ChatInput(lm_outputs[i], ReferencesOrDefault[i],
                   TaskInputsOrDefault[i], system_message)
    ELSE TextInput(lm_outputs[i], ReferencesOrDefault[i],
                   TaskInputsOrDefault[i])

\* the score the last digit run of a completion stands for
ScoreOf(completion) ==
    IF ~HasDigit(completion) THEN None
    ELSE LET v == CHOOSE x \in LastRunValues(completion) : TRUE IN
         IF InsideRange(v, valid_score_range) THEN Some(v) ELSE None

\* detail i: prompt i, the judge's completion for it, that completion's score
DetailsAligned(details) ==
    /\ Len(details) = Len(lm_outputs)
    /\ \A i \in 1..Len(details) :
           /\ details[i].llm_score_input = PromptOf(i)
           /\ details[i].llm_score_output =
                  language_model[lm_outputs[i]]
           /\ details[i].llm_score = ScoreOf(details[i].llm_score_output)

\* C1 (as claimed): for every input of N instances and every batch size
\* >= 1, evaluate returns exactly N instance details, detail i holding
\* prompt i, the completion returned for it and the score parsed from it.
\* (Stated for N >= 1; with N = 0 the code ends the same way.)
C1_ReturnsAlignedDetails ==
    (Ended /\ Len(lm_outputs) >= 1) =>
        (result.outcome = "ok" /\ DetailsAligned(result.instance_details))

\* What the code does keep: whenever evaluate returns, the N details are
\* aligned with the N instances.
DetailsAlignedOnReturn ==
    (Ended /\ result.outcome = "ok") => DetailsAligned(result.instance_details)

\* C2: on the same inputs and the same judge, the scorer with batch size 1
\* ends as the scorer with any batch size >= 1 did: the same per-instance
\* scores and details and the same summary (or the same exception).
C2_BatchSizeInvariance ==
    (Ended /\ batch_size = 1) =>
        \A k \in 1..Len(history) : history[k].result = result

\* three instances scored in batches of two or more, then one by one, with
\* both a parsed and an absent score among them
C2_Witness ==
    /\ Ended
    /\ batch_size = 1
    /\ Len(history) >= 1
    /\ history[1].batch_size >= 2
    /\ Len(lm_outputs) >= 3
    /\ result.outcome = "ok"
    /\ \E i, j \in 1..Len(result.instance_details) :
           /\ result.instance_details[i].llm_score = None
           /\ result.instance_details[j].llm_score # None

(***************************************************************************)
(* The constrained-label scorers: LLMGEvalScore and ChatLLMGEvalScore.     *)
(***************************************************************************)
GEvalScorers == {"LLMGEvalScore", "ChatLLMGEvalScore"}

\* prepare_text_input_for_evaluator / prepare_chat_input_for_evaluator:
\* one rendered prompt per instance, in order
prepare_input_for_evaluator(cls, outputs, references, task_inputs, message) ==
    RenderInputs(cls, outputs, task_inputs, references, message)

(***************************************************************************)
(* The judge of the constrained-label scorers answers, for a prompt and a  *)
(* label, a log-probability or None.  A judge is a profile per lm_output.  *)
(***************************************************************************)
Profiles == {"uniform", "peak", "null", "deep"}

ProfileLogprob(profile, label) ==
    CASE profile = "uniform" -> Some(<<0, -1>>)
      [] profile = "peak" ->
             IF label = <<"1">> THEN Some(<<0, 0>>) ELSE Some(<<-1, 0>>)
      [] profile = "null" -> None
      [] profile = "deep" -> Some(<<-1075, 0>>)

\* the most labels a backend scores in one call ("for openai models,
\* len(valid_labels) <= 20 due to constraint")
LabelCap == 20

\* a call that pairs the prompt with no label
MutLogprobCallArgs(cls, evaluator_input, labels) ==
    [method |-> "batch_compute_log_probs", prompts |-> <<>>,
     continuations |-> <<>>]

\* the arguments of the backend call for one input: the prompt repeated
\* once per label, and the labels (as assistant turns in chat mode)
LogprobCallArgs(cls, evaluator_input, labels) ==
    IF IsChat(cls)
    THEN [method |-> "batch_compute_chat_log_probs",
          prompts |-> [i \in 1..Len(labels) |-> evaluator_input],
          continuations |->
              [i \in 1..Len(labels) |->
                  [role |-> "assistant", content |-> labels[i]]]]
    ELSE [method |-> "batch_compute_log_probs",
          prompts |-> [i \in 1..Len(labels) |-> evaluator_input],
          continuations |-> labels]

\* a backend with the cap refuses a call with more labels than the cap
BackendAccepts(call) == Len(call.continuations) <= LabelCap

\* batch_compute_log_probs / batch_compute_chat_log_probs: one answer per
\* (prompt, label) pair, in order
BatchComputeLogProbs(cls, model, call) ==
    [i \in 1..Min(Len(call.prompts), Len(call.continuations)) |->
        ProfileLogprob(model[PromptKey(cls, call.prompts[i])],
                       IF IsChat(cls) THEN call.continuations[i].content
                       ELSE call.continuations[i])]

\* dict(zip(keys, values))
RECURSIVE DictOfZip(_, _, _, _)
DictOfZip(keys, values, i, d) ==
    IF i > Min(Len(keys), Len(values)) THEN d
    ELSE DictOfZip(keys, values, i + 1, DictSet(d, keys[i], values[i]))

\* one turn of the loop of generate_evaluation_logprobs: the prompt paired
\* with every label, and the answers zipped with the labels
LogprobsFor(cls, model, evaluator_input, labels) ==
    DictOfZip(labels,
              BatchComputeLogProbs(cls, model,
                  LogprobCallArgs(cls, evaluator_input, labels)),
              1, <<>>)

(***************************************************************************)
(* summarize_evaluator_geval_scores                                        *)
(***************************************************************************)
RECURSIVE SumFracs(_)
SumFracs(xs) ==
    IF xs = <<>> THEN FracOfInt(0) ELSE FracAdd(Head(xs), SumFracs(Tail(xs)))

MeanFracs(xs) == FracDiv(SumFracs(xs), FracOfInt(Len(xs)))

\* [s for s in evaluator_score_list if s is not None]
RECURSIVE ValidScores(_)
ValidScores(scores) ==
    IF scores = <<>> THEN <<>>
    ELSE IF Head(scores) = None THEN ValidScores(Tail(scores))
    ELSE <<Head(scores)[1]>> \o ValidScores(Tail(scores))

\* the loop over zip(evaluator_score_list, task_inputs_list)
RECURSIVE GEvalCategoryLoop(_, _, _, _, _)
GEvalCategoryLoop(scores, task_inputs, key, i, by_category) ==
    IF i > Min(Len(scores), Len(task_inputs)) THEN by_category
    ELSE IF scores[i] = None \/ key = None
    THEN GEvalCategoryLoop(scores, task_inputs, key, i + 1, by_category)
    ELSE IF key[1] \in DictKeys(task_inputs[i])
    THEN GEvalCategoryLoop(scores, task_inputs, key, i + 1,
             DictAppendTo(by_category, DictGet(task_inputs[i], key[1]),
                          scores[i][1]))
    ELSE GEvalCategoryLoop(scores, task_inputs, key, i + 1, by_category)

summarize_evaluator_geval_scores(scores, task_inputs, key) ==
    LET all_valid_scores == ValidScores(scores) IN
    IF Len(all_valid_scores) = 0
    THEN [outcome |-> "ZeroDivisionError", summary |-> <<>>]
    ELSE LET by_category == GEvalCategoryLoop(scores, task_inputs, key, 1, <<>>)
         IN  [outcome |-> "ok",
              summary |->
                  <<<< <<"llm_geval_score">>, MeanFracs(all_valid_scores) >>,
                    << <<"num_failed_score_parses">>,
                       Len(scores) - Len(all_valid_scores) >>>>
                  \o [c \in 1..Len(by_category) |->
                        << <<"llm_geval_score", by_category[c][1]>>,
                           MeanFracs(by_category[c][2]) >>]]

(***************************************************************************)
(* LLMGEvalScore.evaluate and ChatLLMGEvalScore.evaluate, cut at the       *)
(* backend calls.                                                          *)
(***************************************************************************)
StartGEval ==
    /\ pc = "constructed"
    /\ scorer \in GEvalScorers
    /\ evaluator_input_list' =
           prepare_input_for_evaluator(scorer, lm_outputs, ReferencesOrDefault,
                                       TaskInputsOrDefault, system_message)
    /\ evaluator_logprobs_list' = <<>>
    /\ batch_start' = 1
    /\ pc' = "batching"
    /\ UNCHANGED <<valid_score_range, parse_vars, wa_vars, sum_vars, reward_vars,
                   self_vars,
                   arg_vars, evaluator_output_list, result, history,
                   backend_calls>>

\* generate_evaluation_logprobs: the backend call for one input
LogprobCall ==
    /\ pc = "batching"
    /\ scorer \in GEvalScorers
    /\ batch_start <= Len(evaluator_input_list)
    /\ LET call == LogprobCallArgs(scorer, evaluator_input_list[batch_start],
                                   valid_labels)
       IN  /\ backend_calls' = Append(backend_calls, call)
           /\ IF BackendAccepts(call)
              THEN /\ evaluator_logprobs_list' =
                          evaluator_logprobs_list \o
                          <<LogprobsFor(scorer, language_model,
                                        evaluator_input_list[batch_start],
                                        valid_labels)>>
                   /\ batch_start' = batch_start + 1
                   /\ UNCHANGED <<pc, result>>
              ELSE /\ pc' = "raised"
                   /\ result' = Raised("BackendError")
                   /\ UNCHANGED <<evaluator_logprobs_list, batch_start>>
    /\ UNCHANGED <<valid_score_range, parse_vars, wa_vars, sum_vars,
                   reward_vars, self_vars, arg_vars, evaluator_input_list,
                   evaluator_output_list, history>>

\* the loop that scores each logprob dict
WeightedAverages(logprobs_list, range) ==
    [i \in 1..Len(logprobs_list) |->
        calculate_weighted_average(logprobs_list[i], range)]

GEvalDetails(averages, inputs, logprobs_list) ==
    [i \in 1..Min(Len(averages), Min(Len(inputs), Len(logprobs_list))) |->
        [llm_geval_score |-> averages[i].score,
         llm_geval_score_input |-> inputs[i],
         llm_geval_score_logprobs |-> logprobs_list[i],
         llm_geval_score_probs |-> averages[i].probs]]

\* after the last input: score, summarize, return MetricResult
FinishGEval ==
    /\ pc = "batching"
    /\ scorer \in GEvalScorers
    /\ batch_start > Len(evaluator_input_list)
    /\ LET averages ==
               WeightedAverages(evaluator_logprobs_list, valid_score_range)
           failed == {i \in 1..Len(averages) : averages[i].outcome # "ok"}
           score_list ==
               [i \in 1..Len(averages) |-> averages[i].score]
           summarized ==
               summarize_evaluator_geval_scores(
                   score_list, TaskInputsOrDefault, category_key)
       IN  IF failed # {}
           THEN /\ pc' = "raised"
                /\ result' =
                       Raised(averages[CHOOSE i \in failed :
                                  \A j \in failed : i <= j].outcome)
           ELSE IF summarized.outcome # "ok"
           THEN /\ pc' = "raised"
                /\ result' = Raised(summarized.outcome)
           ELSE /\ pc' = "returned"
                /\ result' =
                       [outcome |-> "ok",
                        summary |-> summarized.summary,
                        instance_details |->
                            GEvalDetails(averages, evaluator_input_list,
                                         evaluator_logprobs_list)]
    /\ UNCHANGED <<valid_score_range, parse_vars, wa_vars, sum_vars, reward_vars,
                   self_vars,
                   arg_vars, evaluator_input_list, evaluator_output_list,
                   evaluator_logprobs_list, batch_start, history,
                   backend_calls>>

\* most instances passed to a constrained-label scorer
MaxGEvalN == 2

InitGEval ==
    /\ ParseOff
    /\ WAOff
    /\ SumOff
    /\ RewardOff
    /\ scorer \in GEvalScorers
    /\ batch_size = 0
    /\ system_message \in
           IF IsChat(scorer) THEN {None, <<"str", "sys">>} ELSE {None}
    /\ category_key \in {None, Some("category")}
    /\ valid_score_range \in
           {Some(<<lo, hi>>) : lo \in (-1)..MaxScore, hi \in (-1)..MaxScore}
           \cup {Some(<<0, LabelCap>>)}
    /\ valid_labels = <<>>
    /\ language_model \in [LmOutputValues -> Profiles]
    /\ \E instances \in InstanceLists(MaxGEvalN) : ArgsOf(instances)
    /\ RunFresh

NextGEval ==
    \/ Construct
    \/ StartGEval
    \/ LogprobCall
    \/ FinishGEval

SpecGEval == InitGEval /\ [][NextGEval]_vars

(***************************************************************************)
(* Claims about the constructors of the constrained-label scorers          *)
(* (checked under SpecGEval).                                              *)
(***************************************************************************)
\* the integer a label such as "-1" or "12" writes
SignedValue(label) ==
    IF label # <<>> /\ label[1] = "-"
    THEN -DecimalValue(label, 2, Len(label))
    ELSE DecimalValue(label, 1, Len(label))

\* C10 (as claimed): a constrained-label scorer constructed with
\* valid_score_range (lo, hi), lo <= hi, holds as its label vocabulary the
\* hi - lo + 1 string integers lo..hi, in both classes alike.
C10_VocabularyIsRange ==
    LET lo == valid_score_range[1][1]
        hi == valid_score_range[1][2]
    IN  (scorer \in GEvalScorers /\ pc # "new" /\ lo <= hi) =>
            /\ ~(pc = "raised" /\ result.outcome = "NameError")
            /\ Len(valid_labels) = hi - lo + 1
            /\ \A i \in 1..Len(valid_labels) :
                   SignedValue(valid_labels[i]) = lo + i - 1

(***************************************************************************)
(* generate_evaluation_logprobs, called on its own: the state at its entry *)
(* holds its arguments (evaluator_input_list of either kind, the judge,    *)
(* valid_labels); its loop is LogprobCall.                                 *)
(***************************************************************************)
\* the vocabularies either constructor builds from a small range
Vocabularies ==
    {ValidLabels(cls, Some(<<lo, hi>>)) :
        cls \in GEvalScorers, lo \in 0..MaxScore, hi \in 0..MaxScore}

InitLogprobs ==
    /\ ParseOff
    /\ WAOff
    /\ SumOff
    /\ RewardOff
    /\ scorer \in GEvalScorers
    /\ batch_size = 0
    /\ system_message \in
           IF IsChat(scorer) THEN {None, <<"str", "sys">>} ELSE {None}
    /\ category_key = None
    /\ valid_score_range = None
    /\ valid_labels \in Vocabularies
    /\ language_model \in [LmOutputValues -> Profiles]
    /\ \E instances \in InstanceLists(MaxGEvalN) : ArgsOf(instances)
    /\ evaluator_input_list =
           prepare_input_for_evaluator(scorer, lm_outputs, ReferencesOrDefault,
                                       TaskInputsOrDefault, system_message)
    /\ pc = "batching"
    /\ evaluator_output_list = <<>>
    /\ evaluator_logprobs_list = <<>>
    /\ batch_start = 1
    /\ result = <<>>
    /\ history = <<>>
    /\ backend_calls = <<>>

\* return evaluator_logprobs_list
ReturnLogprobs ==
    /\ pc = "batching"
    /\ scorer \in GEvalScorers
    /\ batch_start > Len(evaluator_input_list)
    /\ pc' = "logprobs_returned"
    /\ result' = evaluator_logprobs_list
    /\ UNCHANGED <<valid_score_range, parse_vars, wa_vars, sum_vars,
                   reward_vars, self_vars, arg_vars, evaluator_input_list,
                   evaluator_output_list, evaluator_logprobs_list,
                   batch_start, history, backend_calls>>

NextLogprobs ==
    \/ LogprobCall
    \/ ReturnLogprobs

SpecLogprobs == InitLogprobs /\ [][NextLogprobs]_vars

(***************************************************************************)
(* Claims about generate_evaluation_logprobs (checked under SpecLogprobs). *)
(***************************************************************************)
\* the label a continuation of a backend call stands for
LabelOfContinuation(continuation) ==
    IF IsChat(scorer) THEN continuation.content ELSE continuation

\* call k pairs input k once with each label, in vocabulary order
PairsInputWithVocabulary(k) ==
    LET call == backend_calls[k] IN
    /\ Len(call.prompts) = Len(valid_labels)
    /\ Len(call.continuations) = Len(valid_labels)
    /\ \A i \in 1..Len(valid_labels) :
           /\ call.prompts[i] = evaluator_input_list[k]
           /\ LabelOfContinuation(call.continuations[i]) = valid_labels[i]

\* map k has the whole vocabulary as its keys, each with the judge's answer
\* for input k and that label, None included
MapCoversVocabulary(map, k) ==
    /\ Len(map) = Len(valid_labels)
    /\ \A i \in 1..Len(valid_labels) :
           /\ map[i][1] = valid_labels[i]
           /\ map[i][2] =
                  ProfileLogprob(
                      language_model[PromptKey(scorer, evaluator_input_list[k])],
                      valid_labels[i])

\* C11: generate_evaluation_logprobs makes one backend call per input, in
\* input order, each pairing that input once with every label in vocabulary
\* order, and returns one map per input, in input order, keyed by the whole
\* vocabulary with null values kept.
C11_OneCallPerInput ==
    (scorer \in GEvalScorers /\ pc \in {"batching", "logprobs_returned"}) =>
        /\ Len(backend_calls) = batch_start - 1
        /\ \A k \in 1..Len(backend_calls) : PairsInputWithVocabulary(k)
        /\ pc = "logprobs_returned" =>
               /\ Len(backend_calls) = Len(evaluator_input_list)
               /\ Len(result) = Len(evaluator_input_list)
               /\ \A k \in 1..Len(result) : MapCoversVocabulary(result[k], k)

\* two chat inputs scored against two or more labels, one of them answered
\* with nulls only
C11_Witness ==
    /\ pc = "logprobs_returned"
    /\ scorer = "ChatLLMGEvalScore"
    /\ Len(result) = 2
    /\ Len(valid_labels) >= 2
    /\ \A i \in 1..Len(valid_labels) : result[1][i][2] = None
    /\ \E i \in 1..Len(valid_labels) : result[2][i][2] # None

(***************************************************************************)
(* The two summarizers, called on their own.  scorer tells which one: the  *)
(* free-text classes call summarize_evaluator_scores_with_category, the    *)
(* constrained-label classes summarize_evaluator_geval_scores.             *)
(***************************************************************************)
\* most instances summarized
MaxSumN == 3

SumScoreValues == {1, 3, 5}

\* int | None for the free-text scorers, float | None for the others
SumScores(cls) ==
    {None} \cup {Some(IF cls \in FreeTextScorers THEN v ELSE FracOfInt(v)) :
                    v \in SumScoreValues}

SumTaskInputs ==
    {<<<<"category", "A">>>>, <<<<"category", "B">>>>, <<<<"topic", "A">>>>,
     <<<<"topic", "T">>, <<"category", "A">>>>}

InitSummarize ==
    /\ ParseOff
    /\ WAOff
    /\ RewardOff
    /\ scorer \in {"LLMScore", "LLMGEvalScore"}
    /\ batch_size = 0
    /\ system_message = None
    /\ category_key \in {None, Some("category"), Some("topic")}
    /\ valid_score_range = None
    /\ valid_labels = <<>>
    /\ language_model = <<>>
    /\ lm_outputs = <<>>
    /\ references_list = None
    /\ \E n \in 0..MaxSumN :
           /\ evaluator_score_list \in [1..n -> SumScores(scorer)]
           /\ task_inputs_list \in {Some(t) : t \in [1..n -> SumTaskInputs]}
    /\ pc = "summarizing"
    /\ evaluator_input_list = <<>>
    /\ evaluator_output_list = <<>>
    /\ evaluator_logprobs_list = <<>>
    /\ batch_start = 0
    /\ result = <<>>
    /\ history = <<>>
    /\ backend_calls = <<>>

CallSummarize ==
    /\ pc = "summarizing"
    /\ pc' = "summarized"
    /\ result' =
           IF scorer \in FreeTextScorers
           THEN summarize_evaluator_scores_with_category(
                    evaluator_score_list, task_inputs_list[1], category_key)
           ELSE summarize_evaluator_geval_scores(
                    evaluator_score_list, task_inputs_list[1], category_key)
    /\ UNCHANGED <<valid_score_range, parse_vars, wa_vars, sum_vars,
                   reward_vars, self_vars, arg_vars, evaluator_input_list,
                   evaluator_output_list, evaluator_logprobs_list,
                   batch_start, history, backend_calls>>

NextSummarize == CallSummarize

SpecSummarize == InitSummarize /\ [][NextSummarize]_vars

(***************************************************************************)
(* Claims about the summarizers (checked under SpecSummarize).             *)
(***************************************************************************)
MetricName == IF scorer \in FreeTextScorers THEN "llm_score" ELSE "llm_geval_score"

\* the instances with a non-absent score
Scored == {i \in 1..Len(evaluator_score_list) : evaluator_score_list[i] # None}

ScoreAsFrac(i) ==
    IF scorer \in FreeTextScorers THEN FracOfInt(evaluator_score_list[i][1])
    ELSE evaluator_score_list[i][1]

RECURSIVE SumOfScores(_)
SumOfScores(S) ==
    IF S = {} THEN FracOfInt(0)
    ELSE LET i == CHOOSE j \in S : TRUE
         IN  FracAdd(ScoreAsFrac(i), SumOfScores(S \ {i}))

\* the mean of the scores of the instances in S
MeanOfScores(S) == FracDiv(SumOfScores(S), FracOfInt(Cardinality(S)))

\* the scored instances whose task inputs hold value v under field key
ScoredUnder(key, v) ==
    {i \in Scored : /\ key \in DictKeys(task_inputs_list[1][i])
                    /\ DictGet(task_inputs_list[1][i], key) = v}

\* the values found under field key among the scored instances
ValuesUnder(key) ==
    {DictGet(task_inputs_list[1][i], key) :
        i \in {j \in Scored : key \in DictKeys(task_inputs_list[1][j])}}

\* C12 (as claimed): for every score sequence with a non-absent score, the
\* summarizer reports the overall mean sum / count of the non-absent scores
\* and num_failed_score_parses = the number of absent scores.
C12_OverallMean ==
    (pc = "summarized" /\ Scored # {}) =>
        /\ result.outcome = "ok"
        /\ DictGet(result.summary, <<MetricName>>) = MeanOfScores(Scored)
        /\ DictGet(result.summary, <<"num_failed_score_parses">>)
               = Len(evaluator_score_list) - Cardinality(Scored)

\* C13 (as claimed): for any category key K, the summary holds, for every
\* value v found under K among the scored instances, the entry
\* "<metric>/<v>" = the mean of exactly those instances' scores, and no
\* other category entry.
C13_CategoryMeans ==
    (pc = "summarized" /\ Scored # {} /\ category_key # None) =>
        /\ result.outcome = "ok"
        /\ {k \in DictKeys(result.summary) : Len(k) = 2}
               = {<<MetricName, v>> : v \in ValuesUnder(category_key[1])}
        /\ \A v \in ValuesUnder(category_key[1]) :
               DictGet(result.summary, <<MetricName, v>>)
                   = MeanOfScores(ScoredUnder(category_key[1], v))

(***************************************************************************)
(* Claims about a whole run of the free-text scorers (checked under Spec). *)
(***************************************************************************)
\* the completions of the run that yield no score
AbsentScores ==
    {i \in 1..Len(evaluator_output_list) :
        ScoreOf(evaluator_output_list[i]) = None}

\* C14 (as claimed): a run in which every backend call succeeds completes
\* and returns a summary whose num_failed_score_parses is the number of
\* absent scores, for any number of parse failures up to all N instances;
\* no error is raised when every score is absent.
C14_CompletesWithFailureCount ==
    (Ended /\ AbsentScores # {}) =>
        /\ result.outcome = "ok"
        /\ DictGet(result.summary, <<"num_failed_score_parses">>)
               = Cardinality(AbsentScores)

(***************************************************************************)
(* evaluate_reward_model (flexeval/core/evaluate_reward_model.py).  A      *)
(* triple is named by its identity; the reward model says, per triple,     *)
(* whether it judges the chosen response better, and its raw output is     *)
(* tagged with the triple it was computed from.                            *)
(***************************************************************************)
\* most triples in a dataset
MaxTriples == 3

TripleIds == {"t1", "t2", "t3"}

\* the raw per-side judgment of one triple
JudgeOutput(model, triple) ==
    [instance |-> triple,
     chosen_reward |-> IF model[triple] THEN 1 ELSE 0,
     rejected_reward |-> IF model[triple] THEN 0 ELSE 1]

\* reward_model.batch_judge(batch): one boolean and one output per instance
BatchJudge(model, batch) ==
    [chosen_is_better |-> [i \in 1..Len(batch) |-> model[batch[i]]],
     outputs |-> [i \in 1..Len(batch) |-> JudgeOutput(model, batch[i])]]

\* the whole dataset, whatever the limit
MutFirstInstances(dataset, limit) == dataset

\* [eval_dataset[i] for i in range(min(max_instances, len(eval_dataset)))]
FirstInstances(dataset, limit) ==
    LET indices == PyRange(0, Min(limit, Len(dataset)))
    IN  [i \in 1..Len(indices) |-> dataset[indices[i] + 1]]

\* every judgment counted as a win
MutCountTrue(bools) == Len(bools)

\* sum(chosen_is_better_list) with True as 1
CountTrue(bools) == Cardinality({i \in 1..Len(bools) : bools[i]})

RewardRaised(exception) ==
    [outcome |-> exception, summary |-> <<>>, judge_outputs |-> <<>>]

\* lines 19-24: the instances to judge and the empty result lists
StartReward ==
    /\ pc = "called"
    /\ reward_bench_instances' =
           IF max_instances = None THEN eval_dataset
           ELSE FirstInstances(eval_dataset, max_instances[1])
    /\ judge_outputs' = <<>>
    /\ chosen_is_better_list' = <<>>
    /\ batch_start' = 1
    /\ pc' = "judging"
    /\ UNCHANGED <<valid_score_range, parse_vars, wa_vars, sum_vars,
                   self_vars, arg_vars, reward_model, eval_dataset,
                   max_instances, evaluator_input_list, evaluator_output_list,
                   evaluator_logprobs_list, result, history, backend_calls>>

\* one turn of the loop over batch_iter(reward_bench_instances, batch_size)
JudgeBatch ==
    /\ pc = "judging"
    /\ batch_start <= Len(reward_bench_instances)
    /\ LET batch == BatchAt(reward_bench_instances, batch_start, batch_size)
           judged == BatchJudge(reward_model, batch)
       IN  /\ chosen_is_better_list' =
                  chosen_is_better_list \o judged.chosen_is_better
           /\ judge_outputs' = judge_outputs \o judged.outputs
           /\ batch_start' = batch_start + Len(batch)
           /\ backend_calls' = Append(backend_calls, batch)
    /\ UNCHANGED <<valid_score_range, parse_vars, wa_vars, sum_vars,
                   self_vars, arg_vars, reward_model, eval_dataset,
                   max_instances, reward_bench_instances, pc,
                   evaluator_input_list, evaluator_output_list,
                   evaluator_logprobs_list, result, history>>

\* a return that guards the division: accuracy 0 when nothing was judged
MutFinishReward ==
    /\ pc = "judging"
    /\ batch_start > Len(reward_bench_instances)
    /\ pc' = "reward_returned"
    /\ result' =
           [outcome |-> "ok",
            summary |->
                <<<< <<"accuracy">>,
                     IF Len(chosen_is_better_list) = 0 THEN FracOfInt(0)
                     ELSE Frac(CountTrue(chosen_is_better_list),
                               Len(chosen_is_better_list)) >>>>,
            judge_outputs |-> judge_outputs]
    /\ UNCHANGED <<valid_score_range, parse_vars, wa_vars, sum_vars,
                   reward_vars, self_vars, arg_vars, evaluator_input_list,
                   evaluator_output_list, evaluator_logprobs_list,
                   batch_start, history, backend_calls>>

\* lines 40-41: the accuracy and the return
FinishReward ==
    /\ pc = "judging"
    /\ batch_start > Len(reward_bench_instances)
    /\ IF Len(chosen_is_better_list) = 0
       THEN /\ pc' = "reward_raised"
            /\ result' = RewardRaised("ZeroDivisionError")
       ELSE /\ pc' = "reward_returned"
            /\ result' =
                   [outcome |-> "ok",
                    summary |->
                        <<<< <<"accuracy">>,
                             Frac(CountTrue(chosen_is_better_list),
                                  Len(chosen_is_better_list)) >>>>,
                    judge_outputs |-> judge_outputs]
    /\ UNCHANGED <<valid_score_range, parse_vars, wa_vars, sum_vars,
                   reward_vars, self_vars, arg_vars, evaluator_input_list,
                   evaluator_output_list, evaluator_logprobs_list,
                   batch_start, history, backend_calls>>

RECURSIVE SeqsUpTo(_, _)
SeqsUpTo(S, n) ==
    IF n = 0 THEN {<<>>}
    ELSE LET shorter == SeqsUpTo(S, n - 1) IN
         shorter \cup {Append(l, x) : l \in shorter, x \in S}

InitReward ==
    /\ ParseOff
    /\ WAOff
    /\ SumOff
    /\ scorer = "off"
    /\ batch_size \in 1..MaxBatch
    /\ system_message = <<>>
    /\ category_key = <<>>
    /\ valid_score_range = None
    /\ valid_labels = <<>>
    /\ language_model = <<>>
    /\ lm_outputs = <<>>
    /\ references_list = <<>>
    /\ task_inputs_list = <<>>
    /\ reward_model \in [TripleIds -> BOOLEAN]
    /\ eval_dataset \in SeqsUpTo(TripleIds, MaxTriples)
    /\ max_instances \in {None} \cup {Some(n) : n \in 0..(MaxTriples + 1)}
    /\ reward_bench_instances = <<>>
    /\ judge_outputs = <<>>
    /\ chosen_is_better_list = <<>>
    /\ pc = "called"
    /\ evaluator_input_list = <<>>
    /\ evaluator_output_list = <<>>
    /\ evaluator_logprobs_list = <<>>
    /\ batch_start = 0
    /\ result = <<>>
    /\ history = <<>>
    /\ backend_calls = <<>>

NextReward ==
    \/ StartReward
    \/ JudgeBatch
    \/ FinishReward

SpecReward == InitReward /\ [][NextReward]_vars

(***************************************************************************)
(* Claims about evaluate_reward_model (checked under SpecReward).          *)
(***************************************************************************)
RewardEnded == pc \in {"reward_returned", "reward_raised"}

\* the triples to be judged: the first min(max_instances, len(dataset))
\* of the dataset, all of them when max_instances is None
TriplesToJudge ==
    SubSeq(eval_dataset, 1,
           IF max_instances = None THEN Len(eval_dataset)
           ELSE Min(max_instances[1], Len(eval_dataset)))

ChosenBetter == {i \in 1..Len(TriplesToJudge) : reward_model[TriplesToJudge[i]]}

\* C15: on return, accuracy is (number of judged triples whose chosen
\* response is judged better) / (number of judged triples), whatever the
\* batch size.  (With no judged triple the fraction is undefined and the
\* call does not return.)
C15_Accuracy ==
    (RewardEnded /\ Len(TriplesToJudge) >= 1) =>
        /\ result.outcome = "ok"
        /\ DictGet(result.summary, <<"accuracy">>)
               = Frac(Cardinality(ChosenBetter), Len(TriplesToJudge))

\* three triples, chosen judged better in two: accuracy 2/3, in batches of 2
C15_Witness ==
    /\ pc = "reward_returned"
    /\ Len(TriplesToJudge) = 3
    /\ Cardinality(ChosenBetter) = 2
    /\ batch_size = 2
    /\ DictGet(result.summary, <<"accuracy">>) = <<2, 3>>

RECURSIVE Concat(_)
Concat(seqs) == IF seqs = <<>> THEN <<>> ELSE Head(seqs) \o Concat(Tail(seqs))

\* the triples handed to batch_judge are the triples to judge, in order
JudgedInOrder == Concat(backend_calls) = TriplesToJudge

\* C16 (as claimed): for every batch size, the call judges exactly the
\* first min(max_instances, len(dataset)) triples, once each and in order,
\* and returns one judge output per judged triple in that order.
C16_JudgesPrefixInOrder ==
    RewardEnded =>
        /\ JudgedInOrder
        /\ result.outcome = "ok"
        /\ Len(result.judge_outputs) = Len(TriplesToJudge)
        /\ \A i \in 1..Len(TriplesToJudge) :
               result.judge_outputs[i] =
                   JudgeOutput(reward_model, TriplesToJudge[i])

\* C16 (amended): the triples judged are always that prefix, once each and
\* in order; with at least one triple to judge the call returns one judge
\* output per judged triple in that order, and with none it makes no
\* backend call and raises ZeroDivisionError.
C16_JudgesPrefixReturnsIfNonEmpty ==
    RewardEnded =>
        /\ JudgedInOrder
        /\ Len(TriplesToJudge) >= 1 =>
               /\ result.outcome = "ok"
               /\ Len(result.judge_outputs) = Len(TriplesToJudge)
               /\ \A i \in 1..Len(TriplesToJudge) :
                      result.judge_outputs[i] =
                          JudgeOutput(reward_model, TriplesToJudge[i])
        /\ Len(TriplesToJudge) = 0 =>
               /\ backend_calls = <<>>
               /\ result.outcome = "ZeroDivisionError"

\* a dataset of three distinct triples cut to its first two by
\* max_instances and judged one triple per call
C16_Witness ==
    /\ pc = "reward_returned"
    /\ Len(eval_dataset) = 3
    /\ Cardinality({eval_dataset[i] : i \in 1..3}) = 3
    /\ max_instances = Some(2)
    /\ batch_size = 1
    /\ Len(backend_calls) = 2
    /\ Len(result.judge_outputs) = 2

\* C17: across one run of a free-text scorer, the prompts passed to the
\* backend, concatenated in call order, are the rendered prompts with none
\* dropped, duplicated or reordered; every call but the last carries
\* exactly batch_size prompts and the last between 1 and batch_size.
C17_BatchesReassemble ==
    (scorer \in FreeTextScorers /\ pc \in {"batching", "returned", "raised"}) =>
        /\ Concat(backend_calls)
               = SubSeq(evaluator_input_list, 1, batch_start - 1)
        /\ \A k \in 1..Len(backend_calls) :
               /\ Len(backend_calls[k]) >= 1
               /\ Len(backend_calls[k]) <= batch_size
               /\ k < Len(backend_calls) => Len(backend_calls[k]) = batch_size
        /\ Ended =>
               /\ Concat(backend_calls) = evaluator_input_list
               /\ Len(evaluator_input_list) = Len(lm_outputs)
               /\ \A i \in 1..Len(lm_outputs) :
                      evaluator_input_list[i] = PromptOf(i)

\* three prompts sent in batches of two: a full call, then a call of one
C17_Witness ==
    /\ Ended
    /\ batch_size = 2
    /\ Len(lm_outputs) = 3
    /\ Len(backend_calls) = 2
    /\ Len(backend_calls[1]) = 2
    /\ Len(backend_calls[2]) = 1

(***************************************************************************)
(* Prompt rendering on its own: a free-text scorer is constructed and      *)
(* evaluate runs up to the end of its rendering loop, on instances whose   *)
(* task inputs also hold fields named lm_output and references, and with   *)
(* every kind of system message.                                           *)
(***************************************************************************)
\* most instances rendered
MaxRenderN == 2

RenderInstances ==
    {[lm_output |-> "x", references |-> <<>>, task_input |-> <<>>],
     [lm_output |-> "y", references |-> <<"r">>,
      task_input |-> <<<<"category", "A">>>>],
     [lm_output |-> "x", references |-> <<"r">>,
      task_input |-> <<<<"lm_output", "z">>, <<"references", <<"t">>>>>>],
     [lm_output |-> "y", references |-> <<>>,
      task_input |-> <<<<"question", "q">>, <<"lm_output", "z">>>>]}

\* None, the literals "" and "sys", and a PromptTemplate
SystemMessages == {None, <<"str", "">>, <<"str", "sys">>, <<"template">>}

InitRender ==
    /\ ParseOff
    /\ WAOff
    /\ SumOff
    /\ RewardOff
    /\ scorer \in FreeTextScorers
    /\ batch_size = 1
    /\ system_message \in IF IsChat(scorer) THEN SystemMessages ELSE {None}
    /\ category_key = None
    /\ valid_score_range = None
    /\ valid_labels = <<>>
    /\ language_model = <<>>
    /\ \E instances \in SeqsUpTo(RenderInstances, MaxRenderN) : ArgsOf(instances)
    /\ RunFresh

NextRender ==
    \/ Construct
    \/ StartEvaluate

SpecRender == InitRender /\ [][NextRender]_vars

(***************************************************************************)
(* Claims about prompt rendering (checked under SpecRender).               *)
(***************************************************************************)
Rendered == scorer \in FreeTextScorers /\ pc = "batching"

\* the text the template rendered for instance i: the flat prompt, or the
\* content of the last turn
RenderedText(i) ==
    IF IsChat(scorer)
    THEN evaluator_input_list[i][Len(evaluator_input_list[i])].content
    ELSE evaluator_input_list[i]

\* the context that text was rendered from
ContextOf(i) == RenderedText(i)[3]

\* C18: the rendering context of instance i holds every task-input field
\* of instance i with its value, lm_output = model output i and references
\* = reference list i unless a task-input field has that name, and nothing
\* else; a task-input field named lm_output or references wins.
C18_MergedContext ==
    Rendered =>
        /\ Len(evaluator_input_list) = Len(lm_outputs)
        /\ \A i \in 1..Len(evaluator_input_list) :
               LET fields == TaskInputsOrDefault[i]
                   context == ContextOf(i)
               IN  /\ DictKeys(context) =
                          {"lm_output", "references"} \cup DictKeys(fields)
                   /\ \A f \in DictKeys(fields) :
                          DictGet(context, f) = DictGet(fields, f)
                   /\ "lm_output" \notin DictKeys(fields) =>
                          DictGet(context, "lm_output") = lm_outputs[i]
                   /\ "references" \notin DictKeys(fields) =>
                          DictGet(context, "references") = ReferencesOrDefault[i]

\* an instance whose task inputs hold a field named lm_output, rendered
\* with that field's value
C18_Witness ==
    /\ Rendered
    /\ \E i \in 1..Len(evaluator_input_list) :
           /\ "lm_output" \in DictKeys(TaskInputsOrDefault[i])
           /\ DictGet(ContextOf(i), "lm_output") = "z"
           /\ lm_outputs[i] # "z"

\* the turns of a chat prompt: an optional system turn first, then the one
\* user turn with the rendered template; a literal system message verbatim,
\* a template one rendered from the context of the user turn
TurnsWellFormed(messages, with_system) ==
    LET n == Len(messages) IN
    /\ n = IF with_system THEN 2 ELSE 1
    /\ messages[n].role = "user"
    /\ messages[n].content[1] = "rendered"
    /\ messages[n].content[2] = "prompt_template"
    /\ with_system =>
           /\ messages[1].role = "system"
           /\ messages[1].content =
                  IF system_message[1] = "str" THEN system_message
                  ELSE <<"rendered", "system_message", messages[n].content[3]>>

C20_OversizeVocabularyRejected ==
    LET lo == valid_score_range[1][1]
        hi == valid_score_range[1][2]
    IN  (scorer \in GEvalScorers /\ pc # "new" /\ hi - lo + 1 > LabelCap) =>
            /\ pc = "raised"
            /\ backend_calls = <<>>

(***************************************************************************)
(* Runs with a backend that may fail.  Neither evaluate nor                *)
(* evaluate_reward_model wraps its backend call in a try: the exception    *)
(* leaves the function at the call.                                        *)
(***************************************************************************)
\* a failed call whose error is noted while the loop goes on
MutBackendFails ==
    /\ pc = "batching"
    /\ scorer \in FreeTextScorers
    /\ batch_start <= Len(evaluator_input_list)
    /\ result = <<>>
    /\ LET batch == BatchAt(evaluator_input_list, batch_start, batch_size)
       IN  /\ backend_calls' = Append(backend_calls, batch)
           /\ batch_start' = batch_start + Len(batch)
    /\ result' = Raised("BackendError")
    /\ UNCHANGED <<valid_score_range, parse_vars, wa_vars, sum_vars,
                   reward_vars, self_vars, arg_vars, pc, evaluator_input_list,
                   evaluator_output_list, evaluator_logprobs_list, history>>

\* language_model.batch_complete_text / batch_generate_chat_response raises
BackendFails ==
    /\ pc = "batching"
    /\ scorer \in FreeTextScorers
    /\ batch_start <= Len(evaluator_input_list)
    /\ LET batch == BatchAt(evaluator_input_list, batch_start, batch_size)
       IN  backend_calls' = Append(backend_calls, batch)
    /\ pc' = "raised"
    /\ result' = Raised("BackendError")
    /\ UNCHANGED <<valid_score_range, parse_vars, wa_vars, sum_vars,
                   reward_vars, self_vars, arg_vars, evaluator_input_list,
                   evaluator_output_list, evaluator_logprobs_list,
                   batch_start, history>>

\* reward_model.batch_judge raises
JudgeFails ==
    /\ pc = "judging"
    /\ batch_start <= Len(reward_bench_instances)
    /\ LET batch == BatchAt(reward_bench_instances, batch_start, batch_size)
       IN  backend_calls' = Append(backend_calls, batch)
    /\ pc' = "reward_raised"
    /\ result' = RewardRaised("BackendError")
    /\ UNCHANGED <<valid_score_range, parse_vars, wa_vars, sum_vars,
                   reward_vars, self_vars, arg_vars, evaluator_input_list,
                   evaluator_output_list, evaluator_logprobs_list,
                   batch_start, history>>

\* a free-text scorer about to be constructed and run
InitFaultScorer ==
    /\ ParseOff
    /\ WAOff
    /\ SumOff
    /\ RewardOff
    /\ scorer \in FreeTextScorers
    /\ batch_size \in 1..MaxBatch
    /\ system_message = None
    /\ category_key = None
    /\ valid_score_range = None
    /\ valid_labels = <<>>
    /\ language_model \in [LmOutputValues -> JudgeOutputs]
    /\ \E instances \in InstanceLists(MaxN) : ArgsOf(instances)
    /\ RunFresh

InitFault ==
    \/ InitFaultScorer
    \/ InitReward

NextFault ==
    \/ Construct
    \/ StartEvaluate
    \/ BackendCall
    \/ BackendFails
    \/ FinishEvaluate
    \/ StartReward
    \/ JudgeBatch
    \/ JudgeFails
    \/ FinishReward

SpecFault == InitFault /\ [][NextFault]_vars

(***************************************************************************)
(* Claims about backend failures (checked under SpecFault).                *)
(***************************************************************************)
\* a backend call of this run has failed
HasFailed ==
    /\ DOMAIN result # {}
    /\ result.outcome = "BackendError"

\* the items the run hands to its backend
BackendItems ==
    IF scorer \in FreeTextScorers THEN evaluator_input_list
    ELSE reward_bench_instances

\* the calls made so far carry consecutive slices of the items: issued in
\* order, none twice
CallsAreConsecutive ==
    LET sent == Concat(backend_calls)
    IN  /\ Len(sent) <= Len(BackendItems)
        /\ sent = SubSeq(BackendItems, 1, Len(sent))

\* after a failure the run is over with the error and nothing else
FailureIsFatal ==
    HasFailed =>
        /\ pc \in {"raised", "reward_raised"}
        /\ result.summary = <<>>
        /\ IF scorer \in FreeTextScorers
           THEN result.instance_details = <<>>
           ELSE result.judge_outputs = <<>>

\* C21: backend calls are issued one after another, each batch at most
\* once; once a backend call fails no further call is issued, the run ends
\* with the error, and no summary and no partial per-instance result is
\* returned.
C21_FailureStopsRun ==
    /\ [](CallsAreConsecutive /\ FailureIsFatal)
    /\ [][HasFailed => UNCHANGED <<backend_calls, result, pc>>]_vars

\* a scorer whose second backend call failed, after a first one succeeded
C21_Witness ==
    /\ HasFailed
    /\ scorer \in FreeTextScorers
    /\ Len(backend_calls) = 2
    /\ Len(evaluator_output_list) >= 1
    /\ pc = "raised"

(***************************************************************************)
(* Claims about the numeric edge of calculate_weighted_average (checked    *)
(* under SpecWA).                                                          *)
(***************************************************************************)
\* every surviving label has a probability that underflowed to zero
AllSurvivorsUnderflow ==
    LET S == Survivors(evaluator_logprobs, valid_score_range) IN
    /\ S # {}
    /\ \A i \in S : Exp(evaluator_logprobs[i][2][1]) = FracOfInt(0)

\* C22 (as claimed): for every logprob map with at least one surviving
\* label whose labels all parse, calculate_weighted_average returns a
\* defined score, neither None nor an error, however negative the
\* log-probabilities are, also when every surviving probability underflows
\* to zero.
C22_DefinedScore ==
    (wa_pc = "returned"
        /\ Survivors(evaluator_logprobs, valid_score_range) # {}
        /\ wa_result.outcome # "ValueError") =>
        /\ wa_result.outcome = "ok"
        /\ wa_result.score # None

\* what the code does in the underflow case: numpy.average refuses weights
\* that sum to zero
C22_UnderflowRaises ==
    (wa_pc = "returned" /\ AllSurvivorsUnderflow
        /\ wa_result.outcome # "ValueError") =>
        wa_result.outcome = "ZeroDivisionError"

(***************************************************************************)
(* calculate_weighted_average called directly and through the evaluate of  *)
(* the constrained-label scorers.                                          *)
(***************************************************************************)
\* "1", "2", "3"
PlainLabels == {<<"1">>, <<"2">>, <<"3">>}

\* None, log 1, log 0.5, log 0.2: weights that are and that are not powers
\* of two
PlainLogprobs == {None, Some(<<0, 0>>), Some(<<-1, 0>>), Some(<<0, -1>>)}

RECURSIVE PlainDictsUpTo(_)
PlainDictsUpTo(n) ==
    IF n = 0 THEN {<<>>}
    ELSE LET shorter == PlainDictsUpTo(n - 1) IN
         shorter \cup
         {Append(d, <<t, lp>>) :
             d \in {e \in shorter : Len(e) = n - 1},
             t \in PlainLabels, lp \in PlainLogprobs}

\* dicts: no label twice
PlainDicts ==
    {d \in PlainDictsUpTo(MaxLabels) :
        \A i, j \in 1..Len(d) : d[i][1] = d[j][1] => i = j}

\* a direct call on a dict of plain labels
InitPlainWA ==
    /\ ParseOff
    /\ ScorerOff
    /\ SumOff
    /\ RewardOff
    /\ evaluator_logprobs \in PlainDicts
    /\ valid_score_range \in Ranges
    /\ wa_result = <<>>
    /\ wa_pc = "ready"

InitScoreBounds ==
    \/ InitPlainWA
    \/ InitGEval

NextScoreBounds ==
    \/ CallCalculateWeightedAverage
    \/ Construct
    \/ StartGEval
    \/ LogprobCall
    \/ FinishGEval

SpecScoreBounds == InitScoreBounds /\ [][NextScoreBounds]_vars

(***************************************************************************)
(* Claims about the bounds of the weighted average (checked under          *)
(* SpecScoreBounds).                                                       *)
(***************************************************************************)
\* lo <= x <= hi for a float x and integers lo, hi
Between(lo, x, hi) ==
    /\ FracLeq(FracOfInt(lo), x)
    /\ FracLeq(x, FracOfInt(hi))

\* the values of the labels that survive in the input of the direct call
SurvivingLabels ==
    {LabelValue(evaluator_logprobs[i][1]) :
        i \in Survivors(evaluator_logprobs, valid_score_range)}

\* a direct call that returned a score
ScoreReturned ==
    /\ wa_pc = "returned"
    /\ wa_result.outcome = "ok"
    /\ wa_result.score # None

\* a run of a constrained-label scorer that returned its result
GEvalReturned ==
    /\ scorer \in GEvalScorers
    /\ pc = "returned"

\* the entries of the summary that hold a mean
MeanEntries ==
    {e \in 1..Len(result.summary) :
        result.summary[e][1][1] = "llm_geval_score"}

\* the instances of the run with a score
ScoredDetails ==
    {j \in 1..Len(result.instance_details) :
        result.instance_details[j].llm_geval_score # None}

\* C23 (as claimed): whenever calculate_weighted_average returns a score,
\* the score lies between the smallest and the largest surviving label,
\* hence within [lo, hi] when a range is configured; and the overall mean
\* and every per-category mean of a llm_geval_score summary lie within
\* [lo, hi].
C23_ScoreWithinLabels ==
    /\ ScoreReturned =>
           /\ \E least, greatest \in SurvivingLabels :
                  Between(least, wa_result.score[1], greatest)
           /\ valid_score_range # None =>
                  Between(valid_score_range[1][1], wa_result.score[1],
                          valid_score_range[1][2])
    /\ GEvalReturned =>
           \A e \in MeanEntries :
               Between(valid_score_range[1][1], result.summary[e][2],
                       valid_score_range[1][2])

\* what the code keeps: every mean of the summary lies between the least
\* and the greatest score of the instances
C23_MeansWithinScores ==
    GEvalReturned =>
        \A e \in MeanEntries :
            \E j, k \in ScoredDetails :
                /\ FracLeq(result.instance_details[j].llm_geval_score[1],
                           result.summary[e][2])
                /\ FracLeq(result.summary[e][2],
                           result.instance_details[k].llm_geval_score[1])

\* a score above the only surviving label: the product label * weight and
\* the quotient by the weight are each rounded
C23_RoundedAboveLabel ==
    /\ ScoreReturned
    /\ SurvivingLabels = {3}
    /\ ~FracLeq(wa_result.score[1], FracOfInt(3))

(***************************************************************************)
(* Claims about the category entries of a summary (checked under           *)
(* SpecSummarize).                                                         *)
(***************************************************************************)
\* the scored instances whose task inputs lack the category key
LackKey ==
    {i \in Scored :
        \/ category_key = None
        \/ category_key[1] \notin DictKeys(task_inputs_list[1][i])}

\* the category entries of the summary
CategoryEntries == {k \in DictKeys(result.summary) : Len(k) = 2}

\* the ways to give every scored instance one category entry or none
Contributions == [Scored -> CategoryEntries \cup {<<"none">>}]

\* every instance without the key is in no category, and every category
\* entry is the mean of the instances given to it
ContributionFits(g) ==
    /\ \A i \in LackKey : g[i] = <<"none">>
    /\ \A k \in CategoryEntries :
           LET S == {i \in Scored : g[i] = k}
           IN  /\ S # {}
               /\ DictGet(result.summary, k) = MeanOfScores(S)

CategoriesPartition ==
    /\ DictGet(result.summary, <<MetricName>>) = MeanOfScores(Scored)
    /\ \E g \in Contributions : ContributionFits(g)
    /\ category_key = None =>
           DictKeys(result.summary)
               = {<<MetricName>>, <<"num_failed_score_parses">>}

\* C24 (as claimed): in both summarizers, every instance with a non-absent
\* score counts in the overall mean; one whose task inputs lack the
\* category key counts in no category entry and every other one in at most
\* one, so the category subsets are disjoint subsets of the scored
\* instances; and with category_key None the summary holds only the
\* overall mean and the failure count.
C24_DisjointCategories ==
    (pc = "summarized" /\ Scored # {}) =>
        /\ LackKey # {} => result.outcome = "ok"
        /\ result.outcome = "ok" => CategoriesPartition

\* what the code keeps: every summary that is returned is built this way
C24_ReturnedSummaryPartitions ==
    (pc = "summarized" /\ result.outcome = "ok") => CategoriesPartition

(***************************************************************************)
(* Runs of the free-text scorers whose three argument lists are passed     *)
(* with any lengths, equal or not.                                         *)
(***************************************************************************)
\* most entries of an argument list
MaxArgLen == 2

InitTruncate ==
    /\ ParseOff
    /\ WAOff
    /\ SumOff
    /\ RewardOff
    /\ scorer \in FreeTextScorers
    /\ batch_size \in 1..MaxBatch
    /\ system_message = None
    /\ category_key \in {None, Some("category")}
    /\ valid_score_range = None
    /\ valid_labels = <<>>
    /\ language_model \in [LmOutputValues -> JudgeOutputs]
    /\ lm_outputs \in SeqsUpTo(LmOutputValues, MaxArgLen)
    /\ task_inputs_list \in
           {None} \cup
           {Some(t) : t \in SeqsUpTo({<<>>, <<<<"category", "A">>>>},
                                     MaxArgLen)}
    /\ references_list \in
           {None} \cup {Some(r) : r \in SeqsUpTo({<<>>, <<"r">>}, MaxArgLen)}
    /\ RunFresh

NextTruncate ==
    \/ Construct
    \/ StartEvaluate
    \/ BackendCall
    \/ FinishEvaluate

SpecTruncate == InitTruncate /\ [][NextTruncate]_vars

(***************************************************************************)
(* Claims about argument lists of different lengths (checked under         *)
(* SpecTruncate).                                                          *)
(***************************************************************************)
\* the three lists as evaluate sees them after its defaults
ArgLengths ==
    {Len(lm_outputs), Len(TaskInputsOrDefault), Len(ReferencesOrDefault)}

LengthsDiffer == Cardinality(ArgLengths) > 1

\* the shortest of the three
ShortestLength == CHOOSE n \in ArgLengths : \A m \in ArgLengths : n <= m

\* the instances of the truncated run whose completion yields no score
AbsentInTruncated ==
    {i \in 1..ShortestLength : ScoreOf(language_model[lm_outputs[i]]) = None}

\* prompts rendered, prompts sent and details returned are as many as the
\* shortest list, and the failure count is taken over those
TruncatedToShortest ==
    /\ Len(evaluator_input_list) = ShortestLength
    /\ Len(Concat(backend_calls)) = ShortestLength
    /\ Len(result.instance_details) = ShortestLength
    /\ DictGet(result.summary, <<"num_failed_score_parses">>)
           = Cardinality(AbsentInTruncated)

\* C25 (as claimed): when lm_outputs, task_inputs_list and references_list
\* have different lengths, LLMScore.evaluate and ChatLLMScore.evaluate
\* raise no error and truncate silently: as many prompts are rendered and
\* sent to the backend, and as many instance details returned, as the
\* shortest list has entries, and num_failed_score_parses counts the
\* failures among those only.
C25_TruncatesToShortest ==
    (Ended /\ LengthsDiffer) =>
        /\ result.outcome = "ok"
        /\ TruncatedToShortest

\* what the code keeps: a run that returns has truncated as claimed, and a
\* run raises only when no instance of the truncated run has a score
C25_TruncatesUnlessNothingScored ==
    (Ended /\ LengthsDiffer) =>
        IF AbsentInTruncated = 1..ShortestLength
        THEN result.outcome = "ZeroDivisionError"
        ELSE result.outcome = "ok" /\ TruncatedToShortest

\* a run over lists of different lengths that returned a truncated result
C25_TruncatedRun ==
    /\ Ended
    /\ LengthsDiffer
    /\ result.outcome = "ok"
    /\ ShortestLength = 1
    /\ Len(lm_outputs) = 2

(***************************************************************************)
(* Claims about a reward evaluation with nothing to judge (checked under   *)
(* SpecReward).                                                            *)
(***************************************************************************)
NothingToJudge == Len(TriplesToJudge) = 0

\* C26: evaluate_reward_model with no triple to judge (an empty dataset,
\* or max_instances = 0) makes no backend call and ends with a
\* division-by-zero error, returning no summary; every run with at least
\* one judged triple returns an accuracy between 0 and 1 inclusive.
C26_NothingToJudgeRaises ==
    /\ NothingToJudge => backend_calls = <<>>
    /\ RewardEnded =>
           IF NothingToJudge
           THEN /\ pc = "reward_raised"
                /\ result.outcome = "ZeroDivisionError"
                /\ result.summary = <<>>
           ELSE /\ pc = "reward_returned"
                /\ result.outcome = "ok"
                /\ FracLeq(FracOfInt(0),
                           DictGet(result.summary, <<"accuracy">>))
                /\ FracLeq(DictGet(result.summary, <<"accuracy">>),
                           FracOfInt(1))

\* a dataset with triples, cut to nothing by max_instances = 0: the call
\* ended with the error and without a backend call
C26_Witness ==
    /\ pc = "reward_raised"
    /\ Len(eval_dataset) >= 1
    /\ max_instances = Some(0)
    /\ backend_calls = <<>>
    /\ result.outcome = "ZeroDivisionError"

====
